---------------------------- MODULE Spec2Model ----------------------------
(***************************************************************************)
(* Weather-station explorer: the per-station dataset cache kept by the     *)
(* display_yearly_data callback (src/main.py), the archive parser of       *)
(* download_station_data and the aggregation functions (src/data.py).      *)
(*                                                                         *)
(* Spec       sequential display_yearly_data requests against the          *)
(*            ./data/stations directory.                                   *)
(* SpecParse  download_station_data applied to upstream responses, the     *)
(*            archive lines held character by character.                   *)
(* SpecData   download, clean, monthly and yearly averages on one          *)
(*            station's files, and the seasonal table made of them.        *)
(* SpecCatalog  initialize_stations_data called again and again, with      *)
(*            fetches that may raise.                                      *)
(* SpecRace   two display_yearly_data calls running at the same time.      *)
(***************************************************************************)
EXTENDS Integers, Sequences, FiniteSets, TLC

(***************************************************************************)
(* Bounds of the model.                                                    *)
(***************************************************************************)
\* Stations the user can select.  Stations are numbered in the order of
\* their first selection, so station 1 is the first one ever requested.
NumStations == 11

\* Cache misses (eviction + pipeline run) in one behaviour.
MaxBuilds == 11

\* Pipeline runs that fail at some stage in one behaviour.
MaxFailures == 1

(***************************************************************************)
(* Program constants.                                                      *)
(***************************************************************************)
\* main.py:465  if len(station_files) >= 10
Capacity == 10

Stations == 1..NumStations
NoStation == 0

\* main.py:479  for ext in ['', '_monthly', '_yearly']
Exts == <<"", "_monthly", "_yearly">>
ExtSet == {Exts[i] : i \in DOMAIN Exts}

\* The four pipeline stages in the order main.py:485-492 runs them.
Stages == <<"download", "clean", "monthly", "yearly">>
StageSet == {Stages[i] : i \in DOMAIN Stages}

\* What one pipeline run does: every stage returns True ("ok"), or the named
\* stage is the first one to return False.
Fates == {"ok"} \cup StageSet

\* os.path.getctime: time of the last metadata change on POSIX systems,
\* creation time on Windows.
Platforms == {"posix", "windows"}

SelectMsg == "Waehle eine Station aus"
TryAgainMsg == "Probleme beim Laden der Stationsdaten, versuche es spaeter erneut"

VARIABLES
    platform,   \* which meaning os.path.getctime has on this host
    files,      \* ./data/stations: station -> ext -> [exists, ctime]
    clock,      \* file-system time when the last pipeline run ended
    last,       \* what the last display_yearly_data call did
    result,     \* what the last display_yearly_data call returned
    nbuilds,    \* cache misses so far
    nfail,      \* failed pipeline runs so far
    nextFresh,  \* lowest-numbered station never selected so far
    response,   \* SpecParse: what requests.get(file_url) meets upstream
    rawFile,    \* SpecParse: ./data/stations/<id>.csv of the one station
    ret,        \* SpecParse: what download_station_data returned
    pc,         \* SpecParse: "call" before download_station_data, then "done"
    monthlyFile, \* SpecData: ./data/stations/<id>_monthly.csv
    yearlyFile,  \* SpecData: ./data/stations/<id>_yearly.csv
    called,      \* SpecData: the data.py functions called so far, with
                 \*           what each returned
    table,       \* SpecData: the seasonal table of the last display
    upstream,     \* SpecCatalog: the station list and the inventory the two
                  \*              URLs deliver
    stationsCsv,  \* SpecCatalog: ./data/stations.csv
    inventoryTxt, \* SpecCatalog: whether ./data/inventory.txt exists
    threads       \* SpecRace: where each of two concurrent
                  \*           display_yearly_data calls stands

cacheVars == <<platform, files, clock, last, result, nbuilds, nfail, nextFresh>>
parseVars == <<response, rawFile, ret, pc>>
dataVars == <<monthlyFile, yearlyFile, called, table>>
catalogVars == <<upstream, stationsCsv, inventoryTxt>>
raceVars == <<threads>>
vars == <<platform, files, clock, last, result, nbuilds, nfail, nextFresh,
          response, rawFile, ret, pc, monthlyFile, yearlyFile, called, table,
          upstream, stationsCsv, inventoryTxt, threads>>

Min(S) == CHOOSE x \in S : \A y \in S : x <= y

(***************************************************************************)
(* The ./data/stations directory.                                          *)
(***************************************************************************)
Absent == [exists |-> FALSE, ctime |-> 0]

EmptyDir == [s \in Stations |-> [e \in ExtSet |-> Absent]]

\* os.path.exists(f"./data/stations/{sid}{ext}.csv")
Exists(fs, sid, ext) == fs[sid][ext].exists

\* df.to_csv(path): creates the file or truncates and rewrites it.  A new
\* file gets ctime `now`; a rewritten file gets ctime `now` where ctime is
\* the change time and keeps its creation time where ctime is that.
WriteFile(fs, sid, ext, now) ==
    [fs EXCEPT ![sid][ext] =
        [exists |-> TRUE,
         ctime  |-> IF fs[sid][ext].exists /\ platform = "windows"
                    THEN fs[sid][ext].ctime ELSE now]]

\* os.remove(old_file) under the os.path.exists guard
RemoveFile(fs, sid, ext) == [fs EXCEPT ![sid][ext] = Absent]


(***************************************************************************)
(* The archive parser of download_station_data (data.py:89-147).           *)
(* A line is a sequence of one-character strings; the content is the       *)
(* sequence of lines r.content.decode('utf-8').split('\n') yields.         *)
(***************************************************************************)
\* data.py:99  if len(line) < 269
LineWidth == 269
\* data.py:109  pos = 21 + (day * 8)
HeaderWidth == 21
SlotWidth == 8
\* data.py:110  value = line[pos:pos+5]
ValueWidth == 5
\* data.py:108  for day in range(31)
DaysPerLine == 31
\* data.py:117  if value == -9999
MissingValue == -9999

\* Lines in one archive.
MaxLines == 2

Digits == <<"0", "1", "2", "3", "4", "5", "6", "7", "8", "9">>
DigitSet == {Digits[i] : i \in DOMAIN Digits}
DigitVal(c) == (CHOOSE i \in DOMAIN Digits : Digits[i] = c) - 1

\* Python line[a:b]: characters a .. b-1 counted from 0, cut at the end of
\* the line.
Slice(line, a, b) ==
    LET hi == IF b < Len(line) THEN b ELSE Len(line)
    IN IF a >= hi THEN <<>> ELSE SubSeq(line, a + 1, hi)

\* str.strip() as int() applies it: blanks off both ends.
RECURSIVE LStrip(_)
LStrip(str) ==
    IF str # <<>> /\ Head(str) = " " THEN LStrip(Tail(str)) ELSE str

RECURSIVE RStrip(_)
RStrip(str) ==
    IF str # <<>> /\ str[Len(str)] = " "
    THEN RStrip(SubSeq(str, 1, Len(str) - 1)) ELSE str

RECURSIVE DigitsValue(_, _)
DigitsValue(str, acc) ==
    IF str = <<>> THEN acc
    ELSE DigitsValue(Tail(str), 10 * acc + DigitVal(Head(str)))

\* int(str) of Python for strings of blanks, signs, digits and other
\* characters: blanks around the number are dropped, one sign may lead, at
\* least one digit and nothing but digits must follow.  ok is FALSE where
\* int raises ValueError.
IntOf(str) ==
    LET s    == RStrip(LStrip(str))
        sign == IF s # <<>> /\ Head(s) \in {"-", "+"} THEN Head(s) ELSE ""
        body == IF sign = "" THEN s ELSE Tail(s)
    IN IF body = <<>> \/ \E i \in DOMAIN body : body[i] \notin DigitSet
       THEN [ok |-> FALSE, val |-> 0]
       ELSE [ok |-> TRUE,
             val |-> IF sign = "-" THEN 0 - DigitsValue(body, 0)
                     ELSE DigitsValue(body, 0)]

\* data.py:99  the lines the loop skips
SkipLine_HeaderOnly(line) == Len(line) < HeaderWidth

SkipLine(line) == Len(line) < LineWidth

\* data.py:117  the missing-value sentinel
IsMissing_Never(value) == FALSE

IsMissing(value) == value = MissingValue

\* data.py:123-133  the row the day loop appends for day (0..30) of a line
DayRow(line, year, month, day) ==
    LET pos == HeaderWidth + (day * SlotWidth)
    IN [Station_ID       |-> Slice(line, 0, 11),
        Year             |-> year,
        Month            |-> month,
        Day              |-> day + 1,
        Element          |-> Slice(line, 17, 21),
        Value            |-> IntOf(Slice(line, pos, pos + ValueWidth)).val,
        Quality_Flag     |-> Slice(line, pos + 5, pos + 6),
        Measurement_Flag |-> Slice(line, pos + 6, pos + 7),
        Source_Flag      |-> Slice(line, pos + 7, pos + 8)]

\* data.py:115-122  whether the day's value field gives a row
DayHasValue(line, day) ==
    LET pos   == HeaderWidth + (day * SlotWidth)
        value == IntOf(Slice(line, pos, pos + ValueWidth))
    IN value.ok /\ ~IsMissing(value.val)

\* data.py:108-133  the day loop of one line: day runs over range(31) from
\* the given day on; a value that does not parse or is the sentinel appends
\* nothing.
ParseDays_Descending(line, year, month, day, data) ==
    LET days == SelectSeq([i \in 1..(DaysPerLine - day) |-> DaysPerLine - i],
                          LAMBDA d : DayHasValue(line, d))
    IN data \o [k \in DOMAIN days |-> DayRow(line, year, month, days[k])]

ParseDays(line, year, month, day, data) ==
    LET days == SelectSeq([i \in 1..(DaysPerLine - day) |-> day + i - 1],
                          LAMBDA d : DayHasValue(line, d))
    IN data \o [k \in DOMAIN days |-> DayRow(line, year, month, days[k])]

\* data.py:98-133  the line loop from line i on.  raised is TRUE where
\* int(line[11:15]) or int(line[15:17]) raises ValueError; the loop ends
\* there.
RECURSIVE ParseLines(_, _, _)
ParseLines(content, i, data) ==
    IF i > Len(content) THEN [raised |-> FALSE, data |-> data]
    ELSE IF SkipLine(content[i]) THEN ParseLines(content, i + 1, data)
    ELSE LET year  == IntOf(Slice(content[i], 11, 15))
             month == IntOf(Slice(content[i], 15, 17))
         IN IF ~year.ok \/ ~month.ok
            THEN [raised |-> TRUE, data |-> data]
            ELSE ParseLines(content, i + 1,
                            ParseDays(content[i], year.val, month.val, 0, data))

\* A CSV file of the directory: whether it exists, its header line and
\* the rows it holds.
NoFile == [exists |-> FALSE, columns |-> <<>>, rows |-> <<>>]

\* data.py:123-133  the keys of the dicts the parser appends
RawColumns ==
    <<"Station_ID", "Year", "Month", "Day", "Element", "Value",
      "Quality_Flag", "Measurement_Flag", "Source_Flag">>

\* data.py:136  pd.DataFrame(data): the columns are the keys of the dicts;
\* an empty list gives a frame without columns.
DataFrame(data) ==
    [columns |-> IF data = <<>> THEN <<>> ELSE RawColumns, rows |-> data]

\* df.to_csv(path, index=False): the header line, then the rows
ToCsv(df) == [exists |-> TRUE, columns |-> df.columns, rows |-> df.rows]

\* data.py:91  requests.get raises (no connection), or answers with a
\* status and a body; data.py:96 cannot decode a body that is not UTF-8.
NoResponse == [raised |-> TRUE, status |-> 0, utf8 |-> TRUE, content |-> <<>>]

\* data.py:92  r.raise_for_status() raises for 4xx and 5xx
RaiseForStatus(status) == status >= 400 /\ status < 600

\* data.py:89-147  download_station_data from the response on: what it
\* returns and what the raw file is afterwards.  Only a call that got
\* through fetch, decode and parse writes the file.
DownloadResult_WritesParsed(resp, file) ==
    IF resp.raised \/ RaiseForStatus(resp.status) \/ ~resp.utf8
    THEN [ret |-> FALSE, file |-> file]
    ELSE LET parsed == ParseLines(resp.content, 1, <<>>)
         IN [ret |-> ~parsed.raised,
             file |-> ToCsv(DataFrame(parsed.data))]

DownloadResult_KeepExisting(resp, file) ==
    IF file.exists THEN [ret |-> TRUE, file |-> file]
    ELSE IF resp.raised \/ RaiseForStatus(resp.status) \/ ~resp.utf8
    THEN [ret |-> FALSE, file |-> file]
    ELSE LET parsed == ParseLines(resp.content, 1, <<>>)
         IN IF parsed.raised
            THEN [ret |-> FALSE, file |-> file]
            ELSE [ret |-> TRUE, file |-> ToCsv(DataFrame(parsed.data))]

DownloadResult(resp, file) ==
    IF resp.raised \/ RaiseForStatus(resp.status) \/ ~resp.utf8
    THEN [ret |-> FALSE, file |-> file]
    ELSE LET parsed == ParseLines(resp.content, 1, <<>>)
         IN IF parsed.raised
            THEN [ret |-> FALSE, file |-> file]
            ELSE [ret |-> TRUE, file |-> ToCsv(DataFrame(parsed.data))]

(***************************************************************************)
(* The frames of clean_station_data, create_monthly_averages and           *)
(* create_yearly_averages (data.py:149-268).  A frame is its column names  *)
(* and its rows; a row is a record over the column names.  A decimal       *)
(* number is held as its count of hundredths, the unit round(x, 2) keeps;  *)
(* a cell that may be empty is <<>> (NaN, None) or <<hundredths>>.         *)
(***************************************************************************)
TMAX == <<"T", "M", "A", "X">>
TMIN == <<"T", "M", "I", "N">>

Null == <<>>

Range(seq) == {seq[i] : i \in DOMAIN seq}

\* pd.read_csv(path): FileNotFoundError where the file is missing,
\* EmptyDataError where it has no header line.
ReadCsv(file) ==
    [raised  |-> ~file.exists \/ file.columns = <<>>,
     columns |-> file.columns,
     rows    |-> file.rows]

\* df[name] raises KeyError for a column the frame does not have.
HasColumns(df, names) == names \subseteq Range(df.columns)

\* Rounding num/den (den > 0) to the nearest integer, a tie to the even
\* one, as numpy's round does.
RoundDiv(num, den) ==
    LET q == num \div den
        r == num % den
    IN IF 2 * r < den THEN q
       ELSE IF 2 * r > den THEN q + 1
       ELSE IF q % 2 = 0 THEN q ELSE q + 1

\* round(num / den, 2), in hundredths
Round2(num, den) == RoundDiv(100 * num, den)

RECURSIVE SumCells(_)
SumCells(cells) ==
    IF cells = <<>> THEN 0 ELSE Head(cells)[1] + SumCells(Tail(cells))

\* Series.mean().round(2) over cells: empty cells are skipped; no cell
\* left gives NaN.
Mean(cells) ==
    LET present == SelectSeq(cells, LAMBDA c : c # Null)
    IN IF present = <<>> THEN Null
       ELSE <<RoundDiv(SumCells(present), Len(present))>>

\* The keys of a groupby or the index of a pivot, ascending.
RECURSIVE SortedInts(_)
SortedInts(S) ==
    IF S = {} THEN <<>>
    ELSE LET m == CHOOSE x \in S : \A y \in S : x <= y
         IN <<m>> \o SortedInts(S \ {m})

PairLeq(a, b) == a[1] < b[1] \/ (a[1] = b[1] /\ a[2] <= b[2])

RECURSIVE SortedPairs(_)
SortedPairs(S) ==
    IF S = {} THEN <<>>
    ELSE LET m == CHOOSE x \in S : \A y \in S : PairLeq(x, y)
         IN <<m>> \o SortedPairs(S \ {m})

\* data.py:168  df['Element'].isin(['TMAX', 'TMIN'])
KeepElement_All(element) == TRUE

KeepElement(element) == element \in {TMAX, TMIN}

\* data.py:171  round(x / 10.0, 2): tenths of a degree to degrees
Celsius(x) == Round2(x, 10)

\* data.py:174  the columns df.drop removes
FlagColumns == {"Quality_Flag", "Measurement_Flag", "Source_Flag"}

\* data.py:162-183  clean_station_data: what it returns and what the raw
\* file is afterwards.  A missing file, a file without header and a file
\* without the columns it touches raise; the file is rewritten only by the
\* last statement.
CleanResult(file) ==
    LET df == ReadCsv(file)
    IN IF df.raised
          \/ ~HasColumns(df, {"Element", "Value"} \cup FlagColumns)
       THEN [ret |-> FALSE, file |-> file]
       ELSE LET kept == SelectSeq(df.rows, LAMBDA r : KeepElement(r.Element))
                cols == SelectSeq(df.columns, LAMBDA c : c \notin FlagColumns)
                rows == [k \in DOMAIN kept |->
                            [c \in Range(cols) |->
                                IF c = "Value" THEN Celsius(kept[k].Value)
                                ELSE kept[k][c]]]
            IN [ret |-> TRUE,
                file |-> ToCsv([columns |-> cols, rows |-> rows])]

\* data.py:218, 258  the columns of the monthly and of the yearly file
MonthlyColumns == <<"Station_ID", "Year", "Month", "TMAX", "TMIN">>
YearlyColumns == <<"Station_ID", "Year", "TMAX", "TMIN">>

\* data.py:202  groupby(['Year', 'Month', 'Element'])['Value'].mean().round(2)
\* for one group; data.py:205-209 the pivot leaves NaN where the group has
\* no row.
GroupMean(rows, year, month, element) ==
    LET group == SelectSeq(rows, LAMBDA r : /\ r.Year = year
                                            /\ r.Month = month
                                            /\ r.Element = element)
    IN Mean([k \in DOMAIN group |-> <<group[k].Value>>])

\* data.py:205-209  the elements the pivot makes columns of
PivotColumns(rows) == {rows[k].Element : k \in DOMAIN rows}

\* data.py:218  monthly_df[['Station_ID', 'Year', 'Month', 'TMAX', 'TMIN']]
\* raises KeyError unless the pivot made both columns.
SelectRaises(elements) == ~({TMAX, TMIN} \subseteq elements)

\* data.py:196-228  create_monthly_averages: what it returns and what the
\* monthly file is afterwards.
MonthlyResult(station_id, raw, monthly) ==
    LET df == ReadCsv(raw)
    IN IF df.raised
          \/ ~HasColumns(df, {"Year", "Month", "Element", "Value"})
          \/ SelectRaises(PivotColumns(df.rows))
       THEN [ret |-> FALSE, file |-> monthly]
       ELSE LET index == SortedPairs({<<df.rows[k].Year, df.rows[k].Month>> :
                                         k \in DOMAIN df.rows})
                rows  == [i \in DOMAIN index |->
                            [Station_ID |-> station_id,
                             Year       |-> index[i][1],
                             Month      |-> index[i][2],
                             TMAX       |-> GroupMean(df.rows, index[i][1],
                                                      index[i][2], TMAX),
                             TMIN       |-> GroupMean(df.rows, index[i][1],
                                                      index[i][2], TMIN)]]
            IN [ret |-> TRUE,
                file |-> ToCsv([columns |-> MonthlyColumns, rows |-> rows])]

\* data.py:248-252  the groups of groupby(['Year']), ascending
YearGroups_FileOrder(rows) == [k \in DOMAIN rows |-> rows[k].Year]

YearGroups_DropNa(rows) ==
    SortedInts({rows[k].Year : k \in {j \in DOMAIN rows :
                                        /\ rows[j].TMAX # Null
                                        /\ rows[j].TMIN # Null}})

YearGroups(rows) == SortedInts({rows[k].Year : k \in DOMAIN rows})

\* data.py:242-268  create_yearly_averages: what it returns and what the
\* yearly file is afterwards.
YearlyResult(monthly, yearly) ==
    LET df == ReadCsv(monthly)
    IN IF df.raised
          \/ ~HasColumns(df, {"Year", "Station_ID", "TMAX", "TMIN"})
       THEN [ret |-> FALSE, file |-> yearly]
       ELSE LET years == YearGroups(df.rows)
                of(y) == SelectSeq(df.rows, LAMBDA r : r.Year = y)
                rows  == [i \in DOMAIN years |->
                            [Station_ID |-> of(years[i])[1].Station_ID,
                             Year       |-> years[i],
                             TMAX       |-> Mean([k \in DOMAIN of(years[i]) |->
                                                    of(years[i])[k].TMAX]),
                             TMIN       |-> Mean([k \in DOMAIN of(years[i]) |->
                                                    of(years[i])[k].TMIN])]]
            IN [ret |-> TRUE,
                file |-> ToCsv([columns |-> YearlyColumns, rows |-> rows])]

(***************************************************************************)
(* The seasonal table of display_yearly_data (main.py:495-554).            *)
(***************************************************************************)
\* main.py:499-502  the monthly rows of the selected year range
FilterYears(rows, year_from, year_to) ==
    SelectSeq(rows, LAMBDA r : r.Year >= year_from /\ r.Year <= year_to)

\* main.py:505  is_northern = station_lat >= 0
IsNorthern(station_lat) == station_lat >= 0

\* main.py:510  df['Year'].unique(): the years in order of appearance
RECURSIVE Unique(_, _)
Unique(seq, seen) ==
    IF seq = <<>> THEN <<>>
    ELSE IF Head(seq) \in seen THEN Unique(Tail(seq), seen)
    ELSE <<Head(seq)>> \o Unique(Tail(seq), seen \cup {Head(seq)})

\* main.py:517-521  current_year[current_year['Month'].isin(months)]
MonthsOf(df, year, months) ==
    SelectSeq(df, LAMBDA r : r.Year = year /\ r.Month \in months)

\* main.py:515-518, 523-526  December of the year before, where the frame
\* has rows of that year, then January and February
DecJanFeb(df, year) ==
    MonthsOf(df, year - 1, {12}) \o MonthsOf(df, year, {1, 2})

\* main.py:514-529  the rows of the four seasons of a year
Seasons == {"Winter", "Fruehling", "Sommer", "Herbst"}

SeasonRows(df, year, season, is_northern) ==
    IF is_northern
    THEN CASE season = "Winter"    -> DecJanFeb(df, year)
           [] season = "Fruehling" -> MonthsOf(df, year, {3, 4, 5})
           [] season = "Sommer"    -> MonthsOf(df, year, {6, 7, 8})
           [] season = "Herbst"    -> MonthsOf(df, year, {9, 10, 11})
    ELSE CASE season = "Sommer"    -> DecJanFeb(df, year)
           [] season = "Herbst"    -> MonthsOf(df, year, {3, 4, 5})
           [] season = "Winter"    -> MonthsOf(df, year, {6, 7, 8})
           [] season = "Fruehling" -> MonthsOf(df, year, {9, 10, 11})

\* main.py:535-542  months[col].mean().round(2) if not months.empty else None
SeasonCell(months, col) ==
    IF months = <<>> THEN Null
    ELSE Mean([k \in DOMAIN months |-> months[k][col]])

\* main.py:531-543  row_data of one year; yearly holds the rows of the
\* yearly file for that year.
RowData(df, yearly, year, is_northern) ==
    LET cell(season, col) ==
            SeasonCell(SeasonRows(df, year, season, is_northern), col)
    IN [Jahr           |-> year,
        Min_jaehrlich  |-> yearly[1].TMIN,
        Max_jaehrlich  |-> yearly[1].TMAX,
        Winter_Min     |-> cell("Winter", "TMIN"),
        Winter_Max     |-> cell("Winter", "TMAX"),
        Fruehling_Min  |-> cell("Fruehling", "TMIN"),
        Fruehling_Max  |-> cell("Fruehling", "TMAX"),
        Sommer_Min     |-> cell("Sommer", "TMIN"),
        Sommer_Max     |-> cell("Sommer", "TMAX"),
        Herbst_Min     |-> cell("Herbst", "TMIN"),
        Herbst_Max     |-> cell("Herbst", "TMAX")]

\* The two request threads and a thread no callback runs in.
Threads == {1, 2}
Idle ==
    [pc |-> "idle", sel |-> NoStation, missed |-> FALSE, seen |-> {},
     oldest |-> NoStation, ran |-> {}, failed |-> ""]
NoThreads == [t \in Threads |-> Idle]

\* Nothing fetched from the two catalog URLs.
NoUpstream == [stations |-> <<>>, inventory |-> <<>>]

\* No seasonal table shown so far.
NoTable ==
    [year_from |-> 0, year_to |-> 0, station_lat |-> 0,
     raised |-> FALSE, rows |-> <<>>]

\* main.py:495-554  from reading the two files to combined_df.  raised is
\* TRUE where a statement raises: a file cannot be read, .iloc[0] finds no
\* yearly row for a year (IndexError), or no monthly row lies in the year
\* range, so that the frame of line 546 has no column 'Jahr' (KeyError).
SeasonalTable(yearly, monthly, year_from, year_to, station_lat) ==
    LET ydf   == ReadCsv(yearly)
        mdf   == ReadCsv(monthly)
        df    == FilterYears(mdf.rows, year_from, year_to)
        years == Unique([k \in DOMAIN df |-> df[k].Year], {})
        of(y) == SelectSeq(ydf.rows, LAMBDA r : r.Year = y)
    IN IF \/ ydf.raised
          \/ mdf.raised
          \/ \E i \in DOMAIN years : of(years[i]) = <<>>
          \/ years = <<>>
       THEN [raised |-> TRUE, rows |-> <<>>]
       ELSE [raised |-> FALSE,
             rows |-> SelectSeq(
                        [i \in DOMAIN years |->
                            RowData(df, of(years[i]), years[i],
                                    IsNorthern(station_lat))],
                        LAMBDA row : /\ row.Jahr >= year_from
                                     /\ row.Jahr <= year_to)]


(***************************************************************************)
(* Cache lookup and eviction (main.py:462-482).                            *)
(***************************************************************************)
\* main.py:462  os.path.exists(monthly_file) and os.path.exists(yearly_file)
CacheHit_MonthlyOnly(fs, sid) == Exists(fs, sid, "_monthly")

CacheHit(fs, sid) == Exists(fs, sid, "_monthly") /\ Exists(fs, sid, "_yearly")

\* main.py:464  the stations that have a *_yearly.csv file
StationFiles(fs) == {s \in Stations : Exists(fs, s, "_yearly")}

\* main.py:470-475  min(os.path.getctime(f) for f in files_to_check
\*                      if os.path.exists(f))
CreationTime(fs, sid) ==
    Min({fs[sid][e].ctime : e \in {x \in ExtSet : Exists(fs, sid, x)}})

\* main.py:467-476  station_times
StationTimes(fs) == [s \in StationFiles(fs) |-> CreationTime(fs, s)]

\* main.py:478  min(station_times, key=lambda x: x[1])[0]: the stations
\* that carry the least time; should two carry it, the directory order
\* decides between them.
OldestStation_Newest(fs) ==
    LET times == StationTimes(fs)
    IN {s \in DOMAIN times : \A o \in DOMAIN times : times[s] >= times[o]}

OldestStation(fs) ==
    LET times == StationTimes(fs)
    IN {s \in DOMAIN times : \A o \in DOMAIN times : times[s] <= times[o]}

\* main.py:465  whether a miss evicts before it builds
MustEvict_Above(fs) == Cardinality(StationFiles(fs)) > Capacity

MustEvict_Never(fs) == FALSE

MustEvict(fs) == Cardinality(StationFiles(fs)) >= Capacity

\* main.py:479-482  remove every existing file of the oldest station
Evict_YearlyOnly(fs, oldest) == RemoveFile(fs, oldest, "_yearly")

Evict_RawOnly(fs, oldest) == RemoveFile(fs, oldest, "")

RECURSIVE RemoveAll(_, _, _)
RemoveAll(fs, sid, i) ==
    IF i > Len(Exts) THEN fs
    ELSE RemoveAll(IF Exists(fs, sid, Exts[i]) THEN RemoveFile(fs, sid, Exts[i])
                   ELSE fs,
                   sid, i + 1)

Evict(fs, oldest) == RemoveAll(fs, oldest, 1)

(***************************************************************************)
(* What each pipeline stage does to the directory (data.py).  `ok` is      *)
(* whether the stage returns True.                                         *)
(***************************************************************************)
\* data.py:135-147  the raw file is written only after fetch and parse
\* succeeded; both except branches return False without touching it.
DownloadFiles(fs, sid, ok, now) ==
    IF ok THEN WriteFile(fs, sid, "", now) ELSE fs

\* data.py:162-183  the cleaned rows replace the raw file in place
CleanFiles(fs, sid, ok, now) ==
    IF ok THEN WriteFile(fs, sid, "", now) ELSE fs

\* data.py:196-228
MonthlyFiles(fs, sid, ok, now) ==
    IF ok THEN WriteFile(fs, sid, "_monthly", now) ELSE fs

\* data.py:242-268
YearlyFiles(fs, sid, ok, now) ==
    IF ok THEN WriteFile(fs, sid, "_yearly", now) ELSE fs

StageNo(fate) ==
    IF fate = "ok" THEN Len(Stages) + 1
    ELSE CHOOSE i \in DOMAIN Stages : Stages[i] = fate

\* main.py:485-492  the stages run in order; the first one that returns
\* False raises and the later ones are not run.  Nothing is cleaned up.
RunPipeline_Continue(fs, sid, fate, now) ==
    LET n  == StageNo(fate)
        f1 == DownloadFiles(fs, sid, n # 1, now + 1)
        f2 == CleanFiles(f1, sid, n # 2, now + 2)
        f3 == MonthlyFiles(f2, sid, n # 3, now + 3)
        f4 == YearlyFiles(f3, sid, n # 4, now + 4)
    IN f4

RunPipeline(fs, sid, fate, now) ==
    LET n  == StageNo(fate)
        f1 == DownloadFiles(fs, sid, n > 1, now + 1)
        f2 == IF n >= 2 THEN CleanFiles(f1, sid, n > 2, now + 2) ELSE f1
        f3 == IF n >= 3 THEN MonthlyFiles(f2, sid, n > 3, now + 3) ELSE f2
        f4 == IF n >= 4 THEN YearlyFiles(f3, sid, n > 4, now + 4) ELSE f3
    IN f4

\* The stages a run with this fate calls.
StagesRun(fate) == {Stages[i] : i \in {j \in DOMAIN Stages : j <= StageNo(fate)}}

\* main.py:495-496  pd.read_csv of the yearly and monthly file: a read
\* leaves the directory as it is.
ReadFiles_Touch(fs, sid, now) ==
    WriteFile(WriteFile(fs, sid, "_yearly", now), sid, "_monthly", now)

ReadFiles(fs, sid, now) == fs

(***************************************************************************)
(* What the callback returns (main.py:437-443, 557-729, 731-735).          *)
(***************************************************************************)
ErrorText(failed) ==
    IF failed = "download" THEN "Failed to download station data"
    ELSE IF failed = "clean" THEN "Failed to clean station data"
    ELSE IF failed = "monthly" THEN "Failed to create monthly averages"
    ELSE IF failed = "yearly" THEN "Failed to create yearly averages"
    ELSE "error while reading or aggregating"

Outcome_ErrorText(failed) ==
    IF failed = "" THEN [children |-> "table", message |-> ""]
    ELSE [children |-> "", message |-> ErrorText(failed)]

\* `failed` names what raised inside the try block ("" when nothing did):
\* both except branches return the same fixed message.
Outcome(failed) ==
    IF failed = "" THEN [children |-> "table", message |-> ""]
    ELSE [children |-> "", message |-> TryAgainMsg]

\* The record of a call: the path it took ("none" without a selection,
\* "hit", "miss"), whether raw, monthly and yearly file of the selected
\* station all existed when it started, the station it ran the pipeline
\* for, the station it evicted, the stages it called and what raised (""
\* when nothing did).
NoRequest ==
    [path |-> "none", complete |-> FALSE, built |-> NoStation,
     evicted |-> NoStation, ran |-> {}, failed |-> ""]

Complete(fs, sid) == \A e \in ExtSet : Exists(fs, sid, e)

\* File-system time a pipeline run takes: one tick per stage, one for the
\* read that follows.
Ticks == Len(Stages) + 1

(***************************************************************************)
(* display_yearly_data (main.py:436-735), one call from start to return.   *)
(*   sel    the selected station, NoStation when selected_rows is empty    *)
(*   aggOk  whether reading and aggregating the files raises nothing       *)
(* A call that misses the cache also draws the fate of its pipeline run.   *)
(* The timeout guard at main.py:459-460 compares two clock readings taken  *)
(* with no blocking call between them; it is taken never to trip.          *)
(***************************************************************************)
display_yearly_data(sel, aggOk) ==
    /\ UNCHANGED <<platform, parseVars, dataVars, catalogVars, raceVars>>
    /\ IF sel = NoStation
       THEN \* main.py:437-443
            /\ aggOk
            /\ result' = [children |-> "", message |-> SelectMsg]
            /\ last' = NoRequest
            /\ UNCHANGED <<files, clock, nbuilds, nfail, nextFresh>>
       ELSE IF CacheHit(files, sel)
       THEN \* main.py:462 is false: straight to main.py:494
            /\ files' = ReadFiles(files, sel, clock + 1)
            /\ last' = [path |-> "hit", complete |-> Complete(files, sel),
                        built |-> NoStation, evicted |-> NoStation,
                        ran |-> {},
                        failed |-> IF aggOk THEN "" ELSE "aggregate"]
            /\ result' = Outcome(last'.failed)
            /\ UNCHANGED <<clock, nbuilds, nfail, nextFresh>>
       ELSE \* main.py:463-492, then main.py:494 when every stage succeeded
            /\ nbuilds < MaxBuilds
            /\ \E fate \in Fates,
                  oldest \in IF MustEvict(files) THEN OldestStation(files)
                             ELSE {NoStation} :
                 LET evicted == IF oldest = NoStation THEN files
                                ELSE Evict(files, oldest)
                     built   == RunPipeline(evicted, sel, fate, clock)
                 IN /\ fate # "ok" => nfail < MaxFailures
                    /\ fate # "ok" => aggOk
                    /\ files' = IF fate = "ok"
                                THEN ReadFiles(built, sel, clock + Ticks)
                                ELSE built
                    /\ last' = [path |-> "miss",
                                complete |-> Complete(files, sel),
                                built |-> sel, evicted |-> oldest,
                                ran |-> StagesRun(fate),
                                failed |-> IF fate # "ok" THEN fate
                                           ELSE IF aggOk THEN ""
                                           ELSE "aggregate"]
                    /\ result' = Outcome(last'.failed)
                    /\ nfail' = IF fate = "ok" THEN nfail ELSE nfail + 1
            /\ clock' = clock + Ticks
            /\ nbuilds' = nbuilds + 1
            /\ nextFresh' = IF sel = nextFresh THEN nextFresh + 1 ELSE nextFresh

Init ==
    /\ platform \in Platforms
    /\ files = EmptyDir
    /\ clock = 0
    /\ last = NoRequest
    /\ result = [children |-> "", message |-> ""]
    /\ nbuilds = 0
    /\ nfail = 0
    /\ nextFresh = 1
    /\ response = NoResponse
    /\ rawFile = NoFile
    /\ ret = FALSE
    /\ pc = "done"
    /\ monthlyFile = NoFile
    /\ yearlyFile = NoFile
    /\ called = <<>>
    /\ table = NoTable
    /\ upstream = NoUpstream
    /\ stationsCsv = NoFile
    /\ inventoryTxt = FALSE
    /\ threads = NoThreads

Next ==
    \E sel \in {NoStation} \cup (1..Min({nextFresh, NumStations})),
       aggOk \in BOOLEAN :
        display_yearly_data(sel, aggOk)

Spec == Init /\ [][Next]_vars


(***************************************************************************)
(* download_station_data on one upstream response (SpecParse).  The        *)
(* response and the raw file the call finds are drawn in the initial       *)
(* state; the one step is the call.                                        *)
(***************************************************************************)
StationId == <<"G", "M", "E", "0", "0", "1", "0", "2", "3", "8", "0">>

\* 5-character value fields
V215    == <<" ", " ", "2", "1", "5">>
VNeg12  == <<" ", " ", "-", "1", "2">>
VZero   == <<" ", " ", " ", " ", "0">>
VPlus   == <<"+", "0", "0", "1", "2">>
VTrail  == <<" ", "-", "7", " ", " ">>
VMiss   == <<"-", "9", "9", "9", "9">>
VBad    == <<" ", "2", "x", "5", " ">>
VBlank  == <<" ", " ", " ", " ", " ">>

\* The 31 value fields of a line, by day slot.
PatternA == [d \in 1..DaysPerLine |->
                IF d = 1 THEN V215 ELSE IF d = 3 THEN VBad
                ELSE IF d = DaysPerLine THEN VNeg12 ELSE VMiss]
PatternB == [d \in 1..DaysPerLine |->
                IF d = 2 THEN VPlus ELSE IF d = 30 THEN VTrail
                ELSE IF d = DaysPerLine THEN VZero ELSE VBlank]
PatternC == [d \in 1..DaysPerLine |-> VMiss]
Patterns == {PatternA, PatternB, PatternC}

\* year, month and element field of a line
HTmax     == <<<<"1", "9", "9", "0">>, <<"0", "1">>, <<"T", "M", "A", "X">>>>
HTmin     == <<<<"1", "9", "9", "1">>, <<"1", "2">>, <<"T", "M", "I", "N">>>>
HPrcp     == <<<<"1", "9", "9", "0">>, <<" ", "2">>, <<"P", "R", "C", "P">>>>
HBadYear  == <<<<"1", "9", "x", "0">>, <<"0", "1">>, <<"T", "M", "A", "X">>>>
HBadMonth == <<<<"1", "9", "9", "0">>, <<"1", "x">>, <<"T", "M", "I", "N">>>>
GoodHeaders == {HTmax, HTmin, HPrcp}
BadHeaders == {HBadYear, HBadMonth}

RECURSIVE Slots(_, _)
Slots(pattern, d) ==
    IF d > DaysPerLine THEN <<>>
    ELSE pattern[d] \o <<IF d = 1 THEN "G" ELSE " ", " ", "E">>
         \o Slots(pattern, d + 1)

MkLine(header, pattern) ==
    StationId \o header[1] \o header[2] \o header[3] \o Slots(pattern, 1)

FullLines ==
    {MkLine(h, p) : h \in GoodHeaders, p \in Patterns}
    \cup {MkLine(h, PatternA) : h \in BadHeaders}

\* Incomplete records: the empty string split('\n') leaves after the last
\* newline, a bare header, and records one character short.
ShortLines ==
    {<<>>,
     Slice(MkLine(HBadYear, PatternA), 0, HeaderWidth),
     Slice(MkLine(HBadMonth, PatternA), 0, LineWidth - 1),
     Slice(MkLine(HTmax, PatternB), 0, LineWidth - 1)}

\* A record followed by the carriage return of a CRLF line end.
LongLines == {MkLine(HTmin, PatternB) \o <<"\r">>}

Lines == FullLines \cup ShortLines \cup LongLines

Contents == UNION {[1..n -> Lines] : n \in 0..MaxLines}

Responses ==
    {NoResponse}
    \cup {[raised |-> FALSE, status |-> s, utf8 |-> TRUE, content |-> <<>>] :
             s \in {404, 503}}
    \cup {[raised |-> FALSE, status |-> 200, utf8 |-> FALSE, content |-> <<>>]}
    \cup {[raised |-> FALSE, status |-> 200, utf8 |-> TRUE, content |-> c] :
             c \in Contents}

\* The raw file the call finds: none, or the one an earlier call wrote.
PriorFiles ==
    {NoFile,
     ToCsv(DataFrame(ParseLines(<<MkLine(HTmax, PatternB)>>, 1, <<>>).data))}

InitParse ==
    /\ platform = "posix"
    /\ files = EmptyDir
    /\ clock = 0
    /\ last = NoRequest
    /\ result = [children |-> "", message |-> ""]
    /\ nbuilds = 0
    /\ nfail = 0
    /\ nextFresh = 1
    /\ response \in Responses
    /\ rawFile \in PriorFiles
    /\ ret = FALSE
    /\ pc = "call"
    /\ monthlyFile = NoFile
    /\ yearlyFile = NoFile
    /\ called = <<>>
    /\ table = NoTable
    /\ upstream = NoUpstream
    /\ stationsCsv = NoFile
    /\ inventoryTxt = FALSE
    /\ threads = NoThreads

\* The four functions have been called once, in pipeline order.
PipelineCalled ==
    /\ Len(called) = Len(Stages)
    /\ \A i \in DOMAIN called : called[i].fn = Stages[i]

\* The first call for the station, or the first call of a second pipeline
\* run for it.
download_station_data ==
    /\ pc = "call" \/ (pc = "done" /\ PipelineCalled)
    /\ LET r == DownloadResult(response, rawFile)
       IN /\ ret' = r.ret
          /\ rawFile' = r.file
    /\ pc' = "done"
    /\ called' = Append(called, [fn |-> "download", ret |-> ret'])
    /\ UNCHANGED <<response, cacheVars, catalogVars, raceVars, monthlyFile, yearlyFile, table>>

NextParse == download_station_data

SpecParse == InitParse /\ [][NextParse]_vars

(***************************************************************************)
(* The data.py functions on one station's files, and the seasonal table    *)
(* made of them (SpecData).  The archive is drawn in the initial state;    *)
(* the functions are called in pipeline order, each whatever the one       *)
(* before returned, as src/test_data.py calls them; create_yearly_averages *)
(* may also follow clean_station_data directly.  After one pipeline run a  *)
(* second one may follow for the same station and archive.                 *)
(***************************************************************************)
\* The value fields of a record with observations on day 1 and day 31.
DataPattern(first, last_) ==
    [d \in 1..DaysPerLine |->
        IF d = 1 THEN first ELSE IF d = DaysPerLine THEN last_ ELSE VMiss]

PRCP == <<"P", "R", "C", "P">>
Y2000 == <<"2", "0", "0", "0">>
Y2001 == <<"2", "0", "0", "1">>
Y2002 == <<"2", "0", "0", "2">>

\* Records of three years: both elements in December 2000 and January
\* 2001, a December 2001, a June 2002, a record whose month field is 13 and
\* a precipitation record.
DataLines ==
    {MkLine(<<Y2000, <<"1", "2">>, TMAX>>, DataPattern(V215, VNeg12)),
     MkLine(<<Y2000, <<"1", "2">>, TMIN>>, DataPattern(VZero, VMiss)),
     MkLine(<<Y2001, <<"0", "1">>, TMAX>>, DataPattern(VPlus, VZero)),
     MkLine(<<Y2001, <<"0", "1">>, TMIN>>, DataPattern(VNeg12, VMiss)),
     MkLine(<<Y2001, <<"1", "2">>, TMAX>>, DataPattern(V215, VMiss)),
     MkLine(<<Y2002, <<"0", "6">>, TMIN>>, DataPattern(VPlus, V215)),
     MkLine(<<Y2001, <<"1", "3">>, TMAX>>, DataPattern(VZero, VPlus)),
     MkLine(<<Y2001, <<"0", "1">>, PRCP>>, DataPattern(V215, V215))}

DataResponses ==
    {NoResponse}
    \cup {[raised |-> FALSE, status |-> 200, utf8 |-> TRUE, content |-> c] :
             c \in UNION {[1..n -> DataLines] : n \in 0..MaxLines}}

\* The year range and the latitude a display is asked for.
Years == 2000..2002
Latitudes == {-34, 0, 48}

InitData ==
    /\ platform = "posix"
    /\ files = EmptyDir
    /\ clock = 0
    /\ last = NoRequest
    /\ result = [children |-> "", message |-> ""]
    /\ nbuilds = 0
    /\ nfail = 0
    /\ nextFresh = 1
    /\ response \in DataResponses
    /\ rawFile = NoFile
    /\ ret = FALSE
    /\ pc = "call"
    /\ monthlyFile = NoFile
    /\ yearlyFile = NoFile
    /\ called = <<>>
    /\ table = NoTable
    /\ upstream = NoUpstream
    /\ stationsCsv = NoFile
    /\ inventoryTxt = FALSE
    /\ threads = NoThreads

LastCalled == IF called = <<>> THEN "" ELSE called[Len(called)].fn

clean_station_data ==
    /\ LastCalled = "download"
    /\ LET r == CleanResult(rawFile)
       IN /\ ret' = r.ret
          /\ rawFile' = r.file
    /\ called' = Append(called, [fn |-> "clean", ret |-> ret'])
    /\ UNCHANGED <<response, pc, cacheVars, catalogVars, raceVars, monthlyFile, yearlyFile, table>>

create_monthly_averages ==
    /\ LastCalled = "clean"
    /\ LET r == MonthlyResult(StationId, rawFile, monthlyFile)
       IN /\ ret' = r.ret
          /\ monthlyFile' = r.file
    /\ called' = Append(called, [fn |-> "monthly", ret |-> ret'])
    /\ UNCHANGED <<response, pc, cacheVars, catalogVars, raceVars, rawFile, yearlyFile, table>>

create_yearly_averages ==
    /\ LastCalled \in {"clean", "monthly"}
    /\ LET r == YearlyResult(monthlyFile, yearlyFile)
       IN /\ ret' = r.ret
          /\ yearlyFile' = r.file
    /\ called' = Append(called, [fn |-> "yearly", ret |-> ret'])
    /\ UNCHANGED <<response, pc, cacheVars, catalogVars, raceVars, rawFile, monthlyFile, table>>

\* main.py:485-492  every stage was called and returned True
PipelineSucceeded ==
    /\ Len(called) = Len(Stages)
    /\ \A i \in DOMAIN called : called[i].fn = Stages[i] /\ called[i].ret

\* main.py:495-554  the display after a pipeline run that succeeded
calculate_seasonal_data(year_from, year_to, station_lat) ==
    /\ PipelineSucceeded
    /\ LET t == SeasonalTable(yearlyFile, monthlyFile, year_from, year_to,
                              station_lat)
       IN table' = [year_from   |-> year_from,
                    year_to     |-> year_to,
                    station_lat |-> station_lat,
                    raised      |-> t.raised,
                    rows        |-> t.rows]
    /\ UNCHANGED <<parseVars, cacheVars, catalogVars, raceVars, monthlyFile, yearlyFile, called>>

NextData ==
    \/ download_station_data
    \/ clean_station_data
    \/ create_monthly_averages
    \/ create_yearly_averages
    \/ \E year_from, year_to \in Years, station_lat \in Latitudes :
          calculate_seasonal_data(year_from, year_to, station_lat)

SpecData == InitData /\ [][NextData]_vars

(***************************************************************************)
(* initialize_stations_data (data.py:5-74), called again and again         *)
(* (SpecCatalog).  What the two URLs deliver is drawn in the initial       *)
(* state; whether a fetch raises is drawn at every call.  A row of the     *)
(* station list is its columns 0 and 5; station IDs are numbered in their  *)
(* sort order.                                                             *)
(***************************************************************************)
\* Rows in the station list and in the inventory.
MaxRows == 2

StationRows ==
    {[Station_ID |-> 1, Station_Name |-> "AACHEN"],
     [Station_ID |-> 2, Station_Name |-> "SYDNEY"],
     [Station_ID |-> 2, Station_Name |-> "SYDNEY AIRPORT"]}

InventoryRow(id, lat, lon, element, first, last_) ==
    [Station_ID |-> id, Latitude |-> lat, Longitude |-> lon,
     Element |-> element, FirstYear |-> first, LastYear |-> last_]

InventoryRows ==
    {InventoryRow(1, 48, 9, "TMAX", 1950, 2020),
     InventoryRow(1, 48, 9, "TMIN", 1960, 2010),
     InventoryRow(1, 48, 9, "PRCP", 1900, 2024),
     InventoryRow(2, -34, 151, "TMAX", 1970, 2000),
     InventoryRow(2, -34, 151, "TMIN", 1965, 2005),
     InventoryRow(3, 0, 0, "TMAX", 1980, 1990)}

Upstreams ==
    [stations  : UNION {[1..n -> StationRows] : n \in 0..MaxRows},
     inventory : UNION {[1..n -> InventoryRows] : n \in 0..MaxRows}]

\* data.py:56-62, 69  the columns of the processed catalog
CatalogColumns ==
    <<"Station_ID", "Latitude", "Longitude", "FirstYear", "LastYear",
      "Station_Name">>

\* data.py:42  inventory_df['Element'].isin(['TMAX', 'TMIN'])
InventoryFilter(rows) ==
    SelectSeq(rows, LAMBDA r : r.Element \in {"TMAX", "TMIN"})

\* data.py:50-53  pd.merge(..., on='Station_ID', how='left') for one row of
\* the station list: one merged row per inventory row of the station, or
\* one with empty inventory cells.
MergeRow(name, inventory) ==
    LET match == SelectSeq(inventory,
                           LAMBDA r : r.Station_ID = name.Station_ID)
    IN IF match = <<>>
       THEN <<[Station_ID |-> name.Station_ID,
               Station_Name |-> name.Station_Name,
               Latitude |-> Null, Longitude |-> Null,
               FirstYear |-> Null, LastYear |-> Null]>>
       ELSE [k \in DOMAIN match |->
                [Station_ID |-> name.Station_ID,
                 Station_Name |-> name.Station_Name,
                 Latitude |-> <<match[k].Latitude>>,
                 Longitude |-> <<match[k].Longitude>>,
                 FirstYear |-> <<match[k].FirstYear>>,
                 LastYear |-> <<match[k].LastYear>>]]

RECURSIVE Merge(_, _)
Merge(names, inventory) ==
    IF names = <<>> THEN <<>>
    ELSE MergeRow(Head(names), inventory) \o Merge(Tail(names), inventory)

\* data.py:57-61  the aggregations of a group, over its cells that are not
\* empty
AggFirst(cells) ==
    LET present == SelectSeq(cells, LAMBDA c : c # Null)
    IN IF present = <<>> THEN Null ELSE present[1]

AggMax(cells) ==
    LET present == SelectSeq(cells, LAMBDA c : c # Null)
    IN IF present = <<>> THEN Null
       ELSE <<CHOOSE x \in {present[k][1] : k \in DOMAIN present} :
                 \A k \in DOMAIN present : x >= present[k][1]>>

AggMin(cells) ==
    LET present == SelectSeq(cells, LAMBDA c : c # Null)
    IN IF present = <<>> THEN Null
       ELSE <<CHOOSE x \in {present[k][1] : k \in DOMAIN present} :
                 \A k \in DOMAIN present : x <= present[k][1]>>

\* data.py:59  'FirstYear': 'max'
AggFirstYear_Min(cells) == AggMin(cells)

AggFirstYear(cells) == AggMax(cells)

\* data.py:60  'LastYear': 'min'
AggLastYear(cells) == AggMin(cells)

\* data.py:65-66  fillna(0).astype(int)
FillNa(cell) == IF cell = Null THEN 0 ELSE cell[1]

\* data.py:41-66  the processed catalog: one row per Station_ID of the
\* merged frame, in ascending order of the IDs
Catalog(stations, inventory) ==
    LET merged == Merge(stations, InventoryFilter(inventory))
        ids    == SortedInts({merged[k].Station_ID : k \in DOMAIN merged})
        of(id) == SelectSeq(merged, LAMBDA r : r.Station_ID = id)
        col(id, c) == [k \in DOMAIN of(id) |-> of(id)[k][c]]
    IN [i \in DOMAIN ids |->
            [Station_ID   |-> ids[i],
             Latitude     |-> AggFirst(col(ids[i], "Latitude")),
             Longitude    |-> AggFirst(col(ids[i], "Longitude")),
             FirstYear    |-> FillNa(AggFirstYear(col(ids[i], "FirstYear"))),
             LastYear     |-> FillNa(AggLastYear(col(ids[i], "LastYear"))),
             Station_Name |-> of(ids[i])[1].Station_Name]]

\* data.py:16  os.path.getsize(path) > 0: a file with a header line or a
\* row
NonEmpty(file) == file.columns # <<>> \/ file.rows # <<>>

\* data.py:23-24  the body of the station list response, written as it is
RawStations(body) == [exists |-> TRUE, columns |-> <<>>, rows |-> body]

InitCatalog ==
    /\ platform = "posix"
    /\ files = EmptyDir
    /\ clock = 0
    /\ last = NoRequest
    /\ result = [children |-> "", message |-> ""]
    /\ nbuilds = 0
    /\ nfail = 0
    /\ nextFresh = 1
    /\ response = NoResponse
    /\ rawFile = NoFile
    /\ ret = FALSE
    /\ pc = "done"
    /\ monthlyFile = NoFile
    /\ yearlyFile = NoFile
    /\ called = <<>>
    /\ table = NoTable
    /\ upstream \in Upstreams
    /\ stationsCsv = NoFile
    /\ inventoryTxt = FALSE
    /\ threads = NoThreads

\* data.py:5-74  one call.  stationsRaise, inventoryRaise: requests.get of
\* the station list, of the inventory raises.  Nothing catches an
\* exception: the call ends where it is raised and what was written stays.
\* pd.read_csv raises EmptyDataError for an empty inventory (line 36) and
\* for an empty station list (line 45).
initialize_stations_data(stationsRaise, inventoryRaise) ==
    /\ IF stationsCsv.exists /\ NonEmpty(stationsCsv)
       THEN UNCHANGED <<stationsCsv, inventoryTxt>>
       ELSE IF stationsRaise
       THEN UNCHANGED <<stationsCsv, inventoryTxt>>
       ELSE IF inventoryRaise
       THEN /\ stationsCsv' = RawStations(upstream.stations)
            /\ UNCHANGED inventoryTxt
       ELSE IF upstream.inventory = <<>> \/ upstream.stations = <<>>
       THEN /\ stationsCsv' = RawStations(upstream.stations)
            /\ inventoryTxt' = TRUE
       ELSE /\ stationsCsv' =
                  ToCsv([columns |-> CatalogColumns,
                         rows |-> Catalog(upstream.stations,
                                          upstream.inventory)])
            /\ inventoryTxt' = FALSE
    /\ UNCHANGED <<upstream, cacheVars, parseVars, dataVars, raceVars>>

NextCatalog ==
    \E stationsRaise, inventoryRaise \in BOOLEAN :
        initialize_stations_data(stationsRaise, inventoryRaise)

SpecCatalog == InitCatalog /\ [][NextCatalog]_vars

(***************************************************************************)
(* Properties of download_station_data (SpecParse).                        *)
(***************************************************************************)
IsLong(line) == Len(line) >= LineWidth
LongIndices(content) == {i \in DOMAIN content : IsLong(content[i])}

FetchFails(resp) == resp.raised \/ (resp.status >= 400 /\ resp.status < 600)

\* The content cannot be decoded, or a line of length >= 269 has a year or
\* month field that is no integer.
Malformed(resp) ==
    \/ ~resp.utf8
    \/ \E i \in LongIndices(resp.content) :
          \/ ~IntOf(SubSeq(resp.content[i], 12, 15)).ok
          \/ ~IntOf(SubSeq(resp.content[i], 16, 17)).ok

\* C7: a call whose fetch fails or whose fetched content is malformed
\* returns False and leaves the raw file as it found it: not created, not
\* modified.
C7_FailedDownloadWritesNothing ==
    [][(pc' = "done" /\ (FetchFails(response) \/ Malformed(response))) =>
        (ret' = FALSE /\ rawFile' = rawFile)]_vars

C7_Witness ==
    /\ pc = "done"
    /\ rawFile.exists
    /\ ~FetchFails(response)
    /\ response.utf8
    /\ Malformed(response)
    /\ \E i \in DOMAIN response.content :
          /\ IsLong(response.content[i])
          /\ \A j \in LongIndices(response.content) : i <= j
          /\ IntOf(SubSeq(response.content[i], 12, 15)).ok
          /\ IntOf(SubSeq(response.content[i], 16, 17)).ok
    /\ ret = FALSE

\* The value field of day slot d (1..31) of a line, and the observation
\* the slot stands for.
ValueField(line, d) ==
    SubSeq(line, HeaderWidth + (d - 1) * SlotWidth + 1,
                 HeaderWidth + (d - 1) * SlotWidth + ValueWidth)

SlotObservation(line, d) ==
    LET base == HeaderWidth + (d - 1) * SlotWidth
    IN [Station_ID       |-> SubSeq(line, 1, 11),
        Year             |-> IntOf(SubSeq(line, 12, 15)).val,
        Month            |-> IntOf(SubSeq(line, 16, 17)).val,
        Day              |-> d,
        Element          |-> SubSeq(line, 18, 21),
        Value            |-> IntOf(ValueField(line, d)).val,
        Quality_Flag     |-> SubSeq(line, base + 6, base + 6),
        Measurement_Flag |-> SubSeq(line, base + 7, base + 7),
        Source_Flag      |-> SubSeq(line, base + 8, base + 8)]

\* The day slots of the long lines whose value field is an integer other
\* than -9999.
ValidSlots(content) ==
    {sl \in LongIndices(content) \X (1..DaysPerLine) :
        /\ IntOf(ValueField(content[sl[1]], sl[2])).ok
        /\ IntOf(ValueField(content[sl[1]], sl[2])).val # MissingValue}

\* C9: when every long line has integer year and month fields, the call
\* succeeds and the rows it writes hold no value -9999 and, counted with
\* multiplicity, exactly one observation for every day slot whose value
\* field is an integer other than -9999, carrying that integer, and
\* nothing for any other slot.
C9_OneObservationPerValidSlot ==
    (pc = "done" /\ ~FetchFails(response) /\ ~Malformed(response)) =>
        LET content == response.content
            rows    == rawFile.rows
        IN /\ ret = TRUE
           /\ rawFile.exists
           /\ \A k \in DOMAIN rows : rows[k].Value # MissingValue
           /\ Len(rows) = Cardinality(ValidSlots(content))
           /\ \A sl \in ValidSlots(content) :
                 LET obs == SlotObservation(content[sl[1]], sl[2])
                 IN Cardinality({k \in DOMAIN rows : rows[k] = obs})
                    = Cardinality({o \in ValidSlots(content) :
                          SlotObservation(content[o[1]], o[2]) = obs})

C9_Witness ==
    /\ pc = "done"
    /\ ret = TRUE
    /\ \E i \in LongIndices(response.content) :
          \E d1, d2, d3 \in 1..DaysPerLine :
              /\ IntOf(ValueField(response.content[i], d1)).ok
              /\ IntOf(ValueField(response.content[i], d1)).val = MissingValue
              /\ ~IntOf(ValueField(response.content[i], d2)).ok
              /\ <<i, d3>> \in ValidSlots(response.content)
    /\ Len(rawFile.rows) >= 2

\* How many valid day slots come no later than slot sl in reading order:
\* earlier line first, within a line the lower day slot first.
SlotRank(content, sl) ==
    Cardinality({o \in ValidSlots(content) :
                    o[1] < sl[1] \/ (o[1] = sl[1] /\ o[2] <= sl[2])})

\* C11: the rows a successful call writes stand in input line order and,
\* within one line, in strictly ascending day order: the row at position
\* k is the observation of the k-th valid day slot in reading order, and
\* its Day is the slot's position 1..31, whatever the month.
C11_RowsInLineThenDayOrder ==
    (pc = "done" /\ ret = TRUE) =>
        \A sl \in ValidSlots(response.content) :
            LET k == SlotRank(response.content, sl)
            IN /\ k \in DOMAIN rawFile.rows
               /\ rawFile.rows[k] = SlotObservation(response.content[sl[1]], sl[2])
               /\ rawFile.rows[k].Day = sl[2]

\* Two lines in descending calendar order, the first a February line with
\* observations on days 30 and 31.
C11_Witness ==
    /\ pc = "done"
    /\ ret = TRUE
    /\ Len(response.content) = 2
    /\ \A i \in 1..2 : IsLong(response.content[i])
    /\ \E j, k \in DOMAIN rawFile.rows :
          /\ 1 < j /\ j < k
          /\ rawFile.rows[j].Month = 2
          /\ rawFile.rows[j].Day = DaysPerLine
          /\ rawFile.rows[j - 1].Month = 2
          /\ rawFile.rows[j - 1].Day = DaysPerLine - 1
          /\ rawFile.rows[k].Month = 1
          /\ rawFile.rows[k].Day < DaysPerLine

\* The content without its lines shorter than 269 characters.
LongOnly(content) == SelectSeq(content, IsLong)

\* C10: lines shorter than 269 characters change nothing: the call returns
\* and writes what it returns and writes for the content without them.
C10_ShortLinesChangeNothing ==
    [][pc' = "done" =>
        LET r == DownloadResult(
                     [response EXCEPT !.content = LongOnly(response.content)],
                     rawFile)
        IN ret' = r.ret /\ rawFile' = r.file]_vars

C10_Witness ==
    /\ pc = "done"
    /\ ret = TRUE
    /\ rawFile.rows # <<>>
    /\ \E i \in DOMAIN response.content :
          /\ ~IsLong(response.content[i])
          /\ Len(response.content[i]) >= HeaderWidth
          /\ ~IntOf(Slice(response.content[i], 11, 15)).ok

(***************************************************************************)
(* Properties of the cache under sequential requests (Spec).               *)
(***************************************************************************)
HasAny(fs, sid) == \E e \in ExtSet : Exists(fs, sid, e)
Partial(fs, sid) == HasAny(fs, sid) /\ ~Complete(fs, sid)
OnDisk(fs) == {s \in Stations : HasAny(fs, s)}

\* C1: in every reachable state at most 10 stations have any of their raw,
\* monthly or yearly file on disk.
C1_AtMostTenStationsOnDisk == Cardinality(OnDisk(files)) <= Capacity

\* C2: after 11 successful builds of 11 distinct stations from an empty
\* cache, no file of the first-built station (station 1) is left and all
\* three files of each of the other ten stations are there.  Eleven misses
\* without a failure are eleven builds of distinct stations: nothing is
\* evicted before the eleventh.
C2_EleventhBuildEvictsFirst ==
    (nbuilds = Capacity + 1 /\ nfail = 0) =>
        /\ ~HasAny(files, 1)
        /\ \A s \in 2..(Capacity + 1) : Complete(files, s)

C2_Witness == nbuilds = Capacity + 1 /\ nfail = 0 /\ last.path = "hit"

\* C3: a cache hit changes no creation timestamp, so the station the next
\* eviction would choose is the one it would have chosen without the hit.
C3_HitKeepsEvictionOrder ==
    [][last'.path = "hit" =>
        \/ files' = files
        \/ /\ \A s \in Stations, e \in ExtSet :
                 files'[s][e].ctime = files[s][e].ctime
           /\ OldestStation(files') = OldestStation(files)]_vars

C3_Witness ==
    /\ last.path = "hit"
    /\ Cardinality(StationFiles(files)) = Capacity
    /\ nbuilds < MaxBuilds

\* C4: when a miss evicts, the evicted station has a yearly file and no
\* station with a yearly file has an existing file older than the evicted
\* station's oldest existing file; every file of the evicted station is
\* deleted and no file of another station is.
C4_EvictsOldestOnly ==
    [][(last'.path = "miss" /\ last'.evicted # NoStation) =>
        LET o == last'.evicted IN
        /\ Exists(files, o, "_yearly")
        /\ \A s \in Stations, e \in ExtSet :
              (Exists(files, s, "_yearly") /\ Exists(files, s, e)) =>
                  \E eo \in ExtSet : /\ Exists(files, o, eo)
                                     /\ files[o][eo].ctime <= files[s][e].ctime
        /\ \A e \in ExtSet : ~Exists(files', o, e)
        /\ \A s \in Stations \ {o}, e \in ExtSet :
              Exists(files, s, e) => Exists(files', s, e)]_vars

C4_Witness ==
    /\ last.path = "miss"
    /\ last.evicted # NoStation
    /\ last.failed = ""

\* C5: a request for a station takes the hit path exactly when all three
\* files of the station exist as the request starts; a hit evicts nothing,
\* calls no stage and leaves every file as it is, a miss calls the pipeline.
C5_HitIffAllThreeExist ==
    [][last'.path # "none" =>
        /\ (last'.path = "hit") <=> last'.complete
        /\ last'.path = "hit" =>
              /\ last'.evicted = NoStation
              /\ last'.ran = {}
              /\ files' = files
        /\ last'.path = "miss" => "download" \in last'.ran]_vars

C5_Witness ==
    /\ last.path = "hit"
    /\ \E s \in Stations : Partial(files, s)

\* C6: after a build that failed at some stage, the station has either none
\* of its three files or all of them.
C6_NoPartialFilesAfterFailure ==
    last.failed \in StageSet => ~Partial(files, last.built)

\* C8: whenever a stage reports failure or reading and aggregating raises,
\* the call returns empty content and the fixed try-again message.
C8_FailureGivesFixedMessage ==
    last.failed # "" => result = [children |-> "", message |-> TryAgainMsg]

C8_Witness ==
    /\ last.failed \in StageSet
    /\ result.message = TryAgainMsg


(***************************************************************************)
(* Properties of the data functions and the seasonal table (SpecData).     *)
(***************************************************************************)
CleanedColumns == {"Station_ID", "Year", "Month", "Day", "Element", "Value"}

IsTemperature(r) == r.Element = TMAX \/ r.Element = TMIN

\* C12: clean_station_data called on the file a successful download has
\* just written leaves exactly the TMAX and TMIN observations of that
\* file, in their order, each without the three flag fields and with the
\* value in degrees (held in hundredths) equal to the tenths value divided
\* by 10: 215 becomes 21.50.
C12_CleanKeepsTemperatures ==
    [][(LastCalled = "download" /\ ret /\ LastCalled' = "clean") =>
        LET kept == SelectSeq(rawFile.rows, IsTemperature)
            rows == rawFile'.rows
        IN /\ Len(rows) = Len(kept)
           /\ \A k \in DOMAIN kept :
                 /\ DOMAIN rows[k] = CleanedColumns
                 /\ \A c \in CleanedColumns \ {"Value"} : rows[k][c] = kept[k][c]
                 /\ 10 * rows[k].Value = 100 * kept[k].Value
                 /\ kept[k].Value = 215 => rows[k].Value = 2150]_vars

\* A cleaned archive that held a precipitation record next to a TMAX
\* record with the value 215.
C12_Witness ==
    /\ LastCalled = "clean"
    /\ ret = TRUE
    /\ \E i \in DOMAIN response.content : Slice(response.content[i], 17, 21) = PRCP
    /\ \E k \in DOMAIN rawFile.rows :
          rawFile.rows[k].Element = TMAX /\ rawFile.rows[k].Value = 2150
    /\ \A k \in DOMAIN rawFile.rows : IsTemperature(rawFile.rows[k])

ElementColumns == {<<"TMAX", TMAX>>, <<"TMIN", TMIN>>}

\* C13: create_monthly_averages called on a cleaned file with at least one
\* observation returns True and writes exactly one row for every (year,
\* month) that has an observation; each row has a TMAX and a TMIN field,
\* empty exactly where the element has no observation in that month.
C13_MonthlyRowPerMonthBothFields ==
    (/\ LastCalled = "monthly"
     /\ called[Len(called) - 1].ret
     /\ rawFile.rows # <<>>) =>
        /\ ret = TRUE
        /\ monthlyFile.exists
        /\ LET obs    == Range(rawFile.rows)
               months == {<<r.Year, r.Month>> : r \in obs}
               rows   == monthlyFile.rows
           IN /\ Len(rows) = Cardinality(months)
              /\ \A ym \in months :
                    \E k \in DOMAIN rows :
                        /\ rows[k].Year = ym[1]
                        /\ rows[k].Month = ym[2]
                        /\ \A ec \in ElementColumns :
                              (rows[k][ec[1]] = Null) <=>
                                  ~\E r \in obs : /\ r.Year = ym[1]
                                                  /\ r.Month = ym[2]
                                                  /\ r.Element = ec[2]

YearsOf(file) == {file.rows[k].Year : k \in DOMAIN file.rows}

\* C14: after a pipeline run in which every stage returned True, the years
\* of the yearly file are the years of the monthly file.
C14_YearlyYearsAreMonthlyYears ==
    PipelineSucceeded => YearsOf(yearlyFile) = YearsOf(monthlyFile)

\* Two years, one of them with no TMAX value in any month.
C14_Witness ==
    /\ PipelineSucceeded
    /\ Cardinality(YearsOf(yearlyFile)) >= 2
    /\ \E y \in YearsOf(monthlyFile) :
          \A k \in DOMAIN monthlyFile.rows :
              monthlyFile.rows[k].Year = y => monthlyFile.rows[k].TMAX = Null

\* C15: the rows of the yearly file are strictly increasing in year.
C15_YearlyStrictlyIncreasing ==
    yearlyFile.exists =>
        \A i, j \in DOMAIN yearlyFile.rows :
            i < j => yearlyFile.rows[i].Year < yearlyFile.rows[j].Year

\* An archive whose later line has the earlier year.
C15_Witness ==
    /\ yearlyFile.exists
    /\ Len(yearlyFile.rows) >= 2
    /\ \E i, j \in DOMAIN response.content :
          /\ i < j
          /\ IntOf(Slice(response.content[i], 11, 15)).val
                > IntOf(Slice(response.content[j], 11, 15)).val

Max(S) == CHOOSE x \in S : \A y \in S : x >= y

\* C16: the years of the yearly file form a contiguous range: as many
\* distinct years as max(year) - min(year) + 1.
C16_YearlyYearsContiguous ==
    (yearlyFile.exists /\ yearlyFile.rows # <<>>) =>
        Cardinality(YearsOf(yearlyFile))
            = Max(YearsOf(yearlyFile)) - Min(YearsOf(yearlyFile)) + 1

\* C17: with no monthly and no yearly file, create_yearly_averages called
\* right after a successful download_station_data and clean_station_data
\* returns True and leaves a yearly file with the columns Station_ID, Year,
\* TMAX, TMIN.
C17_YearlyWithoutMonthly ==
    (/\ Len(called) = 3
     /\ called[1].ret
     /\ called[2].fn = "clean" /\ called[2].ret
     /\ called[3].fn = "yearly") =>
        /\ ret = TRUE
        /\ yearlyFile.exists
        /\ yearlyFile.columns = <<"Station_ID", "Year", "TMAX", "TMIN">>

\* C18: every row of the monthly file has a month from 1 to 12.
C18_MonthInCalendar ==
    monthlyFile.exists =>
        \A k \in DOMAIN monthlyFile.rows : monthlyFile.rows[k].Month \in 1..12

\* The rows of the station's monthly file for December of the year before
\* and the given months of the year.
StationMonths(year, december, months) ==
    SelectSeq(monthlyFile.rows,
              LAMBDA r : \/ december /\ r.Year = year - 1 /\ r.Month = 12
                         \/ r.Year = year /\ r.Month \in months)

\* C19: for a northern station every year Y of the seasonal table has its
\* winter values computed from December of Y-1 where the station's monthly
\* file has it, and January and February of Y.
C19_WinterUsesPreviousDecember ==
    (table.year_from \in Years /\ ~table.raised /\ table.station_lat > 0) =>
        \A i \in DOMAIN table.rows :
            LET winter == StationMonths(table.rows[i].Jahr, TRUE, {1, 2})
            IN /\ table.rows[i].Winter_Max = SeasonCell(winter, "TMAX")
               /\ table.rows[i].Winter_Min = SeasonCell(winter, "TMIN")

\* The months of a season: northern iff the latitude is >= 0; the southern
\* labels stand two quarters off the northern ones.
SeasonMonths(season, station_lat) ==
    IF station_lat >= 0
    THEN CASE season = "Winter"    -> {1, 2}
           [] season = "Fruehling" -> {3, 4, 5}
           [] season = "Sommer"    -> {6, 7, 8}
           [] season = "Herbst"    -> {9, 10, 11}
    ELSE CASE season = "Sommer"    -> {1, 2}
           [] season = "Herbst"    -> {3, 4, 5}
           [] season = "Winter"    -> {6, 7, 8}
           [] season = "Fruehling" -> {9, 10, 11}

SeasonFields ==
    [Winter    |-> <<"Winter_Min", "Winter_Max">>,
     Fruehling |-> <<"Fruehling_Min", "Fruehling_Max">>,
     Sommer    |-> <<"Sommer_Min", "Sommer_Max">>,
     Herbst    |-> <<"Herbst_Min", "Herbst_Max">>]

\* C20: the station is northern exactly when its latitude is >= 0.  For a
\* southern station summer is December of Y-1 with January and February,
\* fall is March to May, winter June to August, spring September to
\* November; for a northern one the labels are the usual ones.  A season
\* without months is empty.
C20_SeasonsByHemisphere ==
    (table.year_from \in Years /\ ~table.raised) =>
        \A i \in DOMAIN table.rows, season \in Seasons :
            LET months == SeasonMonths(season, table.station_lat)
                rows   == StationMonths(table.rows[i].Jahr, 1 \in months, months)
            IN /\ table.rows[i][SeasonFields[season][1]] =
                      IF rows = <<>> THEN Null ELSE SeasonCell(rows, "TMIN")
               /\ table.rows[i][SeasonFields[season][2]] =
                      IF rows = <<>> THEN Null ELSE SeasonCell(rows, "TMAX")

\* The calls of the first pipeline run all returned True, and a second run
\* is under way or over.
SecondRun ==
    /\ Len(called) > Len(Stages)
    /\ \A i \in 1..Len(Stages) : called[i].fn = Stages[i] /\ called[i].ret

\* C21: when a pipeline run has succeeded, every function of a second run
\* for the same station and archive returns True and leaves the monthly
\* and the yearly file as the first run left them.
C21_SecondRunLeavesSameFiles ==
    [][SecondRun' =>
        /\ ret' = TRUE
        /\ monthlyFile' = monthlyFile
        /\ yearlyFile' = yearlyFile]_vars

\* Both runs over, the yearly file with rows of two years.
C21_Witness ==
    /\ Len(called) = 2 * Len(Stages)
    /\ \A i \in DOMAIN called : called[i].ret
    /\ called[Len(called)].fn = "yearly"
    /\ Len(yearlyFile.rows) >= 2


(***************************************************************************)
(* Properties of initialize_stations_data (SpecCatalog).                   *)
(***************************************************************************)
Processed(file) == file.exists /\ file.columns = CatalogColumns

\* The first and last years of the TMAX and TMIN inventory rows of a
\* station.
FirstYears(id) ==
    {upstream.inventory[k].FirstYear :
        k \in {j \in DOMAIN upstream.inventory :
                  /\ upstream.inventory[j].Station_ID = id
                  /\ upstream.inventory[j].Element \in {"TMAX", "TMIN"}}}

LastYears(id) ==
    {upstream.inventory[k].LastYear :
        k \in {j \in DOMAIN upstream.inventory :
                  /\ upstream.inventory[j].Station_ID = id
                  /\ upstream.inventory[j].Element \in {"TMAX", "TMIN"}}}

\* C22: in the built catalog every station of the station list has exactly
\* one row and no other station has one; FirstYear is the maximum of the
\* first years and LastYear the minimum of the last years of the station's
\* TMAX and TMIN inventory rows, and both are 0 for a station without such
\* a row.
C22_CatalogYears ==
    Processed(stationsCsv) =>
        LET rows == stationsCsv.rows
            ids  == {upstream.stations[k].Station_ID :
                        k \in DOMAIN upstream.stations}
        IN /\ \A id \in ids :
                 Cardinality({k \in DOMAIN rows : rows[k].Station_ID = id}) = 1
           /\ \A k \in DOMAIN rows :
                 /\ rows[k].Station_ID \in ids
                 /\ rows[k].FirstYear =
                        IF FirstYears(rows[k].Station_ID) = {} THEN 0
                        ELSE Max(FirstYears(rows[k].Station_ID))
                 /\ rows[k].LastYear =
                        IF LastYears(rows[k].Station_ID) = {} THEN 0
                        ELSE Min(LastYears(rows[k].Station_ID))

\* A catalog with a station that has a TMAX and a TMIN row with different
\* years and a station without inventory row.
C22_Witness ==
    /\ Processed(stationsCsv)
    /\ \E j, k \in DOMAIN stationsCsv.rows :
          /\ Cardinality(FirstYears(stationsCsv.rows[j].Station_ID)) = 2
          /\ stationsCsv.rows[k].FirstYear = 0
          /\ stationsCsv.rows[k].LastYear = 0

\* C26: whenever ./data/stations.csv exists and is not empty between two
\* calls, it is the processed catalog with the columns Station_ID,
\* Latitude, Longitude, FirstYear, LastYear, Station_Name, never the raw
\* station list.
C26_SkippedRebuildFindsCatalog ==
    (stationsCsv.exists /\ NonEmpty(stationsCsv)) =>
        stationsCsv.columns =
            <<"Station_ID", "Latitude", "Longitude", "FirstYear", "LastYear",
              "Station_Name">>


(***************************************************************************)
(* Capacity, file order and eviction under sequential requests (Spec).     *)
(***************************************************************************)
\* The stations other than the one a call builds whose files the call
\* removes.
Removed(fs, after, built) ==
    {s \in Stations \ {built} : HasAny(fs, s) /\ ~HasAny(after, s)}

CompleteStations(fs) == {s \in Stations : Complete(fs, s)}

\* C23: after every call at most 10 stations have a yearly file, and a miss
\* that finds 10 or more stations with a yearly file removes the files of
\* exactly one of them, a station other than the one it builds, and leaves
\* the files of every other station alone.
C23_YearlyFilesWithinCapacity ==
    [][/\ Cardinality(StationFiles(files')) <= Capacity
       /\ (last'.path = "miss" /\ Cardinality(StationFiles(files)) >= Capacity)
             => /\ Cardinality(Removed(files, files', last'.built)) = 1
                /\ Removed(files, files', last'.built) \subseteq
                       StationFiles(files)
                /\ \A s \in Stations \ ({last'.built} \cup
                                        Removed(files, files', last'.built)) :
                       files'[s] = files[s]]_vars

\* A successful build at capacity: ten yearly files again after it.
C23_Witness ==
    /\ last.path = "miss"
    /\ last.failed = ""
    /\ last.evicted \in Stations
    /\ Cardinality(StationFiles(files)) = Capacity
    /\ nbuilds > Capacity

\* C24: between requests, a station that has its yearly file has its
\* monthly file and a station that has its monthly file has its raw file.
C24_YearlyThenMonthlyThenRaw ==
    \A s \in Stations :
        /\ Exists(files, s, "_yearly") => Exists(files, s, "_monthly")
        /\ Exists(files, s, "_monthly") => Exists(files, s, "")

\* One station with all three files beside one whose build failed at the
\* last stage: raw and monthly file, no yearly file.
C24_Witness ==
    \E a, b \in Stations :
        /\ Complete(files, a)
        /\ Exists(files, b, "_monthly") /\ ~Exists(files, b, "_yearly")
        /\ Exists(files, b, "")

\* C25: a miss at capacity whose build fails leaves the evicted station
\* without any file and one station fewer with all three files than there
\* were before the call.
C25_FailedBuildKeepsEviction ==
    [][(/\ last'.path = "miss"
        /\ last'.evicted \in Stations
        /\ last'.failed \in StageSet)
          => /\ ~HasAny(files', last'.evicted)
             /\ Cardinality(CompleteStations(files')) =
                    Cardinality(CompleteStations(files)) - 1]_vars

\* A build at capacity failed after the download: the evicted station is
\* gone and the new one has its raw file only.
C25_Witness ==
    /\ last.path = "miss"
    /\ last.evicted \in Stations
    /\ last.failed \in StageSet \ {"download"}
    /\ Partial(files, last.built)
    /\ Cardinality(CompleteStations(files)) = Capacity - 1


(***************************************************************************)
(* Two display_yearly_data calls at the same time (SpecRace): the server   *)
(* runs each callback in a thread of its own and main.py:462-492 takes no  *)
(* lock.  A step of a thread is one of the blocks of main.py:462-496; the  *)
(* steps of the two threads interleave freely.  The directory at the start *)
(* is the one Capacity - 1 or Capacity sequential builds leave.            *)
(***************************************************************************)
\* ./data/stations after stations 1 .. k were requested one after the
\* other and built: each build writes the files of its station only and
\* takes Ticks of file-system time.
BuiltDir(k) ==
    [s \in Stations |->
        IF s <= k THEN RunPipeline(EmptyDir, s, "ok", (s - 1) * Ticks)[s]
        ELSE EmptyDir[s]]

RaceStarts == {Capacity - 1, Capacity}

InitRace ==
    /\ platform \in Platforms
    /\ \E k \in RaceStarts :
          /\ files = BuiltDir(k)
          /\ clock = k * Ticks
          /\ nbuilds = k
          /\ nextFresh = k + 1
    /\ last = NoRequest
    /\ result = [children |-> "", message |-> ""]
    /\ nfail = 0
    /\ response = NoResponse
    /\ rawFile = NoFile
    /\ ret = FALSE
    /\ pc = "done"
    /\ monthlyFile = NoFile
    /\ yearlyFile = NoFile
    /\ called = <<>>
    /\ table = NoTable
    /\ upstream = NoUpstream
    /\ stationsCsv = NoFile
    /\ inventoryTxt = FALSE
    /\ threads = NoThreads

\* main.py:436-462  the callback starts for the selected station and checks
\* for its monthly and yearly file
request(t, sel) ==
    /\ threads[t].pc = "idle"
    /\ threads' = [threads EXCEPT ![t] =
                      [Idle EXCEPT !.sel = sel,
                                   !.missed = ~CacheHit(files, sel),
                                   !.pc = IF CacheHit(files, sel) THEN "read"
                                          ELSE "list"]]
    /\ UNCHANGED <<cacheVars, parseVars, dataVars, catalogVars>>

\* main.py:464-465  list the *_yearly.csv files and compare their number
\* with the capacity
list_station_files(t) ==
    /\ threads[t].pc = "list"
    /\ threads' = [threads EXCEPT ![t].seen = StationFiles(files),
                                  ![t].pc = IF MustEvict(files) THEN "times"
                                            ELSE "download"]
    /\ UNCHANGED <<cacheVars, parseVars, dataVars, catalogVars>>

\* main.py:467-478  the creation times of the listed stations and the
\* oldest of them; min() of no file raises ValueError for a listed station
\* whose files are gone by now
find_oldest(t) ==
    /\ threads[t].pc = "times"
    /\ IF \E s \in threads[t].seen : ~HasAny(files, s)
       THEN threads' = [threads EXCEPT ![t].failed = "evict",
                                       ![t].pc = "done"]
       ELSE \E oldest \in
                 {s \in threads[t].seen :
                     \A o \in threads[t].seen :
                         CreationTime(files, s) <= CreationTime(files, o)} :
               threads' = [threads EXCEPT ![t].oldest = oldest,
                                          ![t].pc = "remove"]
    /\ UNCHANGED <<cacheVars, parseVars, dataVars, catalogVars>>

\* main.py:479-482  remove the files of the oldest station that exist
remove_oldest(t) ==
    /\ threads[t].pc = "remove"
    /\ files' = Evict(files, threads[t].oldest)
    /\ threads' = [threads EXCEPT ![t].pc = "download"]
    /\ UNCHANGED <<platform, clock, last, result, nbuilds, nfail, nextFresh,
                   parseVars, dataVars, catalogVars>>

\* The file a stage reads; the download reads none.
StageInput(stage) ==
    IF stage = "yearly" THEN {"_monthly"}
    ELSE IF stage = "download" THEN {} ELSE {""}

StageFiles(fs, sid, stage, ok, now) ==
    IF stage = "download" THEN DownloadFiles(fs, sid, ok, now)
    ELSE IF stage = "clean" THEN CleanFiles(fs, sid, ok, now)
    ELSE IF stage = "monthly" THEN MonthlyFiles(fs, sid, ok, now)
    ELSE YearlyFiles(fs, sid, ok, now)

\* main.py:485-492  one pipeline call of the thread; ok is whether it
\* returns True, which it cannot without the file it reads.  A call that
\* returns False raises and ends the callback.
run_stage(t, ok) ==
    LET stage == threads[t].pc
        sid   == threads[t].sel
        i     == CHOOSE j \in DOMAIN Stages : Stages[j] = stage
    IN /\ stage \in StageSet
       /\ ok => \A e \in StageInput(stage) : Exists(files, sid, e)
       /\ (~ok /\ \A e \in StageInput(stage) : Exists(files, sid, e))
             => nfail < MaxFailures
       /\ files' = StageFiles(files, sid, stage, ok, clock + 1)
       /\ clock' = clock + 1
       /\ nfail' = IF ok THEN nfail ELSE nfail + 1
       /\ threads' =
             [threads EXCEPT
                 ![t].ran = @ \cup {stage},
                 ![t].failed = IF ok THEN "" ELSE stage,
                 ![t].pc = IF ~ok THEN "done"
                           ELSE IF i = Len(Stages) THEN "read"
                           ELSE Stages[i + 1]]
       /\ UNCHANGED <<platform, last, result, nbuilds, nextFresh,
                      parseVars, dataVars, catalogVars>>

\* main.py:494-496  read the yearly and the monthly file; pd.read_csv
\* raises for a file that is gone
read_files(t) ==
    /\ threads[t].pc = "read"
    /\ threads' =
          [threads EXCEPT
              ![t].pc = "done",
              ![t].failed = IF CacheHit(files, threads[t].sel) THEN ""
                            ELSE "aggregate"]
    /\ UNCHANGED <<cacheVars, parseVars, dataVars, catalogVars>>

NextRace ==
    \E t \in Threads :
        \/ \E sel \in {1} \cup (nextFresh .. NumStations) : request(t, sel)
        \/ list_station_files(t)
        \/ find_oldest(t)
        \/ remove_oldest(t)
        \/ \E ok \in BOOLEAN : run_stage(t, ok)
        \/ read_files(t)

SpecRace == InitRace /\ [][NextRace]_vars

(***************************************************************************)
(* Properties of concurrent requests (SpecRace).                           *)
(***************************************************************************)
\* The thread returned the table after the check at main.py:462 had sent
\* it into the build branch.
BuiltOk(t) ==
    /\ threads[t].pc = "done"
    /\ threads[t].missed
    /\ threads[t].failed = ""

=============================================================================
